---------------------------- MODULE Spec2Model ----------------------------
(***************************************************************************)
(* Model of the catalog feed scripts scripts/build_feed.py and             *)
(* scripts/build_site.py.                                                  *)
(*                                                                         *)
(* A Python str is a sequence of characters; a character is a one-letter   *)
(* TLA+ string (a regional-indicator code point of a flag glyph is a named *)
(* token).  Python's None is the value None below.  A Decimal is the pair  *)
(* [num, scale] standing for num / 10^scale.                               *)
(***************************************************************************)
EXTENDS Integers, Sequences, FiniteSets, TLC

VARIABLES
    script,         \* which script's main() runs: "feed" | "site" | "price"
    pc,             \* position of main()
    http_status,    \* outcome of requests.get: 0 = no response, else HTTP status
    has_price_col,  \* whether the fetched header holds PRICE_COL
    src_rows,       \* the data rows of the fetched CSV
    MARKETS,        \* build_site.py: the configured market list
    out,            \* build_feed.py build_rows: the rows appended, before the sort
    rows,           \* build_feed.py main: the list build_rows returned
    by_market,      \* the per-market dict, as <<key, rows>> pairs in insertion order
    mapped,         \* build_site.py main: the rows map_row accepted
    all_items,      \* build_site.py main: the rows of the index page
    writes,         \* the files written so far, in order: <<path, rows>>
    price_in,       \* argument of a call of parse_price
    price_out       \* what that call returned, as <<>> (None) or <<Decimal>>

vars == <<script, pc, http_status, has_price_col, src_rows, MARKETS, out, rows,
          by_market, mapped, all_items, writes, price_in, price_out>>

----------------------------------------------------------------------------
(* Bounds of the model *)

\* longest source-row list of a feed run
MaxRows == 3
\* longest source-row list of a site run
MaxSiteRows == 2
\* longest source-row list served with a response that aborts the run
MaxErrRows == 1
\* longest price string handed to parse_price on its own
MaxPriceLen == 4

----------------------------------------------------------------------------
(* Characters and strings *)

None == <<"<None>">>

AsciiTable ==
    <<" ", "!", "\"", "#", "$", "%", "&", "'", "(", ")", "*", "+", ",", "-", ".", "/",
      "0", "1", "2", "3", "4", "5", "6", "7", "8", "9", ":", ";", "<", "=", ">", "?",
      "@", "A", "B", "C", "D", "E", "F", "G", "H", "I", "J", "K", "L", "M", "N", "O",
      "P", "Q", "R", "S", "T", "U", "V", "W", "X", "Y", "Z", "[", "\\", "]", "^", "_",
      "BACKTICK", "a", "b", "c", "d", "e", "f", "g", "h", "i", "j", "k", "l", "m", "n", "o",
      "p", "q", "r", "s", "t", "u", "v", "w", "x", "y", "z", "{", "|", "}", "~">>

AsciiChars == {AsciiTable[i] : i \in 1..Len(AsciiTable)}

AsciiCode == [c \in AsciiChars |-> 31 + (CHOOSE i \in 1..Len(AsciiTable) : AsciiTable[i] = c)]

\* the regional-indicator code points the flag glyphs are made of
RegionalCode ==
    [c \in {"RI_A", "RI_B", "RI_C", "RI_D", "RI_E", "RI_F", "RI_G", "RI_I", "RI_J",
            "RI_K", "RI_P", "RI_R", "RI_S", "RI_T", "RI_U"} |->
        CASE c = "RI_A" -> 127462 [] c = "RI_B" -> 127463 [] c = "RI_C" -> 127464
          [] c = "RI_D" -> 127465 [] c = "RI_E" -> 127466 [] c = "RI_F" -> 127467
          [] c = "RI_G" -> 127468 [] c = "RI_I" -> 127470 [] c = "RI_J" -> 127471
          [] c = "RI_K" -> 127472 [] c = "RI_P" -> 127477 [] c = "RI_R" -> 127479
          [] c = "RI_S" -> 127480 [] c = "RI_T" -> 127481 [] c = "RI_U" -> 127482]

\* the code point of a character: Python orders strings by code point
Code(c) ==
    IF c \in DOMAIN RegionalCode THEN RegionalCode[c]
    ELSE IF c = "\t" THEN 9
    ELSE IF c = "\n" THEN 10
    ELSE AsciiCode[c]

IsSpace(c) == c \in {" ", "\t", "\n"}

IsDigit(c) == c \in {"0", "1", "2", "3", "4", "5", "6", "7", "8", "9"}

DigitVal(c) == Code(c) - 48

Min(S) == CHOOSE x \in S : \A y \in S : x <= y

Max(S) == CHOOSE x \in S : \A y \in S : x >= y

\* str.strip(): leading and trailing whitespace removed
strip(s) ==
    LET keep == {i \in 1..Len(s) : ~IsSpace(s[i])}
    IN  IF keep = {} THEN <<>> ELSE SubSeq(s, Min(keep), Max(keep))

upper_char(c) ==
    IF c \in AsciiChars /\ AsciiCode[c] >= 97 /\ AsciiCode[c] <= 122
    THEN AsciiTable[AsciiCode[c] - 32 - 31] ELSE c

lower_char(c) ==
    IF c \in AsciiChars /\ AsciiCode[c] >= 65 /\ AsciiCode[c] <= 90
    THEN AsciiTable[AsciiCode[c] + 32 - 31] ELSE c

\* str.upper()
upper(s) == [i \in 1..Len(s) |-> upper_char(s[i])]

\* str.lower()
lower(s) == [i \in 1..Len(s) |-> lower_char(s[i])]

\* (v or ""): None and the empty string both give the empty string
or_empty(v) == IF v = None THEN <<>> ELSE v

\* str.replace(c, "")
remove_char(s, c) == SelectSeq(s, LAMBDA x : x # c)

\* sep.join(parts)
RECURSIVE join(_, _)
join(sep, parts) ==
    IF parts = <<>> THEN <<>>
    ELSE IF Len(parts) = 1 THEN parts[1]
    ELSE parts[1] \o sep \o join(sep, Tail(parts))

\* Python's order of two strings: code point by code point, a prefix first
str_le(a, b) ==
    LET n == IF Len(a) <= Len(b) THEN Len(a) ELSE Len(b)
        d == {i \in 1..n : a[i] # b[i]}
    IN  IF d = {} THEN Len(a) <= Len(b)
        ELSE Code(a[Min(d)]) < Code(b[Min(d)])

\* Python's order of two tuples of strings
RECURSIVE tuple_le(_, _)
tuple_le(k1, k2) ==
    IF k1 = <<>> THEN TRUE
    ELSE IF k2 = <<>> THEN FALSE
    ELSE IF k1[1] # k2[1] THEN str_le(k1[1], k2[1])
    ELSE tuple_le(Tail(k1), Tail(k2))

\* list.sort(key=...) on a list of [key, item] pairs: stable, ascending; an
\* element goes behind the elements whose key is not greater than its own
RECURSIVE insert_sorted(_, _)
insert_sorted(x, sorted) ==
    IF sorted = <<>> THEN <<x>>
    ELSE IF tuple_le(sorted[1].key, x.key)
         THEN <<sorted[1]>> \o insert_sorted(x, Tail(sorted))
         ELSE <<x>> \o sorted

RECURSIVE sort_keyed(_)
sort_keyed(list) ==
    IF list = <<>> THEN <<>>
    ELSE insert_sorted(list[Len(list)], sort_keyed(SubSeq(list, 1, Len(list) - 1)))

items_of(keyed) == [i \in 1..Len(keyed) |-> keyed[i].item]

----------------------------------------------------------------------------
(* build_feed.py: parse_price *)

RECURSIVE digits_value(_)
digits_value(ds) ==
    IF ds = <<>> THEN 0
    ELSE 10 * digits_value(SubSeq(ds, 1, Len(ds) - 1)) + DigitVal(ds[Len(ds)])

\* the end of the run of digits that starts at position i
digit_run_end(t, i) ==
    Max({j \in i..Len(t) : \A k \in i..j : IsDigit(t[k])})

\* re.search(r"(\d+(?:\.\d+)?)", t): <<>> for no match, else <<group 1>>
re_search_number(t) ==
    LET ds == {i \in 1..Len(t) : IsDigit(t[i])}
    IN  IF ds = {} THEN <<>>
        ELSE LET i == Min(ds)
                 j == digit_run_end(t, i)
                 frac == j + 2 <= Len(t) /\ t[j + 1] = "." /\ IsDigit(t[j + 2])
             IN  IF frac THEN <<SubSeq(t, i, digit_run_end(t, j + 2))>>
                 ELSE <<SubSeq(t, i, j)>>

\* Decimal(text) of a text of the shape d+ or d+.d+
Decimal(text) ==
    LET dot == {i \in 1..Len(text) : text[i] = "."}
    IN  IF dot = {} THEN [num |-> digits_value(text), scale |-> 0]
        ELSE [num |-> digits_value(remove_char(text, ".")),
              scale |-> Len(text) - Min(dot)]

parse_price_no_commas(v) ==
    IF v = None THEN <<>>
    ELSE LET s == strip(v)
         IN  IF s = <<>> THEN <<>>
             ELSE LET m == re_search_number(s)
                  IN  IF m = <<>> THEN <<>> ELSE <<Decimal(m[1])>>

parse_price(v) ==
    IF v = None THEN <<>>
    ELSE LET s == strip(v)
         IN  IF s = <<>> THEN <<>>
             ELSE LET m == re_search_number(remove_char(s, ","))
                  IN  IF m = <<>> THEN <<>> ELSE <<Decimal(m[1])>>

----------------------------------------------------------------------------
(* build_feed.py: configuration *)

US == <<"U", "S">>
UK == <<"U", "K">>
DE == <<"D", "E">>
FR == <<"F", "R">>
IT == <<"I", "T">>
ES == <<"E", "S">>
CA == <<"C", "A">>
JP == <<"J", "P">>

USD == <<"U", "S", "D">>
GBP == <<"G", "B", "P">>
EUR == <<"E", "U", "R">>
CAD == <<"C", "A", "D">>
JPY == <<"J", "P", "Y">>

CURRENCY_BY_MARKET ==
    [m \in {US, UK, DE, FR, IT, ES, CA, JP} |->
        CASE m = US -> USD [] m = UK -> GBP [] m = CA -> CAD [] m = JP -> JPY
          [] OTHER -> EUR]

FLAG_BY_MARKET ==
    [m \in {US, UK, DE, FR, IT, ES, CA, JP} |->
        CASE m = US -> <<"RI_U", "RI_S">> [] m = UK -> <<"RI_G", "RI_B">>
          [] m = DE -> <<"RI_D", "RI_E">> [] m = FR -> <<"RI_F", "RI_R">>
          [] m = IT -> <<"RI_I", "RI_T">> [] m = ES -> <<"RI_E", "RI_S">>
          [] m = CA -> <<"RI_C", "RI_A">> [] m = JP -> <<"RI_J", "RI_P">>]

\* dict.get(key, default)
dict_get(d, key, default) == IF key \in DOMAIN d THEN d[key] ELSE default

----------------------------------------------------------------------------
(* build_feed.py: helpers *)

normalize_market(market) == upper(strip(or_empty(market)))

normalize_asin(asin) == upper(strip(or_empty(asin)))

HexDigits == <<"0", "1", "2", "3", "4", "5", "6", "7", "8", "9",
               "a", "b", "c", "d", "e", "f">>

\* hashlib.sha1(raw.encode("utf-8")).hexdigest()[:10], idealised as a digest
\* without collisions: the hexadecimal text of the bytes of raw, so that two
\* digests are equal exactly when the hashed strings are
RECURSIVE sha1_hex(_)
sha1_hex(raw) ==
    IF raw = <<>> THEN <<>>
    ELSE <<HexDigits[(Code(raw[1]) \div 16) + 1], HexDigits[(Code(raw[1]) % 16) + 1]>>
         \o sha1_hex(Tail(raw))

stable_unique_id(base_id, store, keyword, remark, link, image_url, commission, status) ==
    LET raw == join(<<"|">>, <<base_id,
                               strip(or_empty(store)),
                               strip(or_empty(keyword)),
                               strip(or_empty(remark)),
                               strip(or_empty(link)),
                               strip(or_empty(image_url)),
                               strip(or_empty(commission)),
                               strip(or_empty(status))>>)
    IN  base_id \o <<"_">> \o sha1_hex(raw)

RECURSIVE Pow10(_)
Pow10(k) == IF k = 0 THEN 1 ELSE 10 * Pow10(k - 1)

\* str(n) of a natural number
RECURSIVE int_to_str(_)
int_to_str(n) ==
    IF n < 10 THEN <<HexDigits[n + 1]>>
    ELSE int_to_str(n \div 10) \o <<HexDigits[(n % 10) + 1]>>

\* the amount of a Decimal in hundredths, as format(d, ".2f") rounds it
\* (the decimal context's ROUND_HALF_EVEN)
cents_of(d) ==
    IF d.scale <= 2 THEN d.num * Pow10(2 - d.scale)
    ELSE LET unit == Pow10(d.scale - 2)
             q == d.num \div unit
             r == d.num % unit
         IN  IF 2 * r > unit \/ (2 * r = unit /\ q % 2 = 1) THEN q + 1 ELSE q

format_1f(d) ==
    int_to_str(cents_of(d) \div 100) \o <<".">> \o int_to_str((cents_of(d) % 100) \div 10)

\* f"{price:.2f}"
format_2f(d) ==
    LET c == cents_of(d)
    IN  int_to_str(c \div 100) \o <<".">>
        \o <<HexDigits[((c % 100) \div 10) + 1], HexDigits[(c % 10) + 1]>>

S_Keyword == <<"K", "e", "y", "w", "o", "r", "d", ":", " ">>
S_Store == <<"S", "t", "o", "r", "e", ":", " ">>
S_remark == <<"r", "e", "m", "a", "r", "k", ":", " ">>
S_in_stock == <<"i", "n", " ", "s", "t", "o", "c", "k">>
S_new == <<"n", "e", "w">>
S_Generic == <<"G", "e", "n", "e", "r", "i", "c">>

\* the description lines of build_rows and build_desc
desc_of(keyword, store, remark) ==
    strip(join(<<"\n">>,
        (IF keyword # <<>> THEN <<S_Keyword \o keyword>> ELSE <<>>)
        \o (IF store # <<>> THEN <<S_Store \o store>> ELSE <<>>)
        \o (IF remark # <<>> THEN <<S_remark \o remark>> ELSE <<>>)))

\* build_row with the price required
build_row_price_required(src) ==
    IF parse_price(src.price) = <<>> \/ normalize_market(src.market) = <<>>
       \/ normalize_asin(src.asin) = <<>> \/ strip(or_empty(src.title)) = <<>>
       \/ strip(or_empty(src.link)) = <<>> \/ strip(or_empty(src.image_url)) = <<>>
    THEN <<>>
    ELSE <<[id |-> stable_unique_id(
                normalize_market(src.market) \o <<"_">> \o normalize_asin(src.asin),
                src.store, src.keyword, src.remark, src.link, src.image_url,
                src.Commission, src.status),
            item_group_id |-> normalize_market(src.market) \o <<"_">> \o normalize_asin(src.asin),
            title |-> <<"(">> \o normalize_market(src.market) \o <<")">>
                      \o dict_get(FLAG_BY_MARKET, normalize_market(src.market), <<>>)
                      \o strip(or_empty(src.title)),
            description |-> desc_of(strip(or_empty(src.keyword)), strip(or_empty(src.store)),
                                    strip(or_empty(src.remark))),
            availability |-> S_in_stock,
            condition |-> S_new,
            price |-> format_2f(parse_price(src.price)[1]) \o <<" ">>
                      \o dict_get(CURRENCY_BY_MARKET, normalize_market(src.market), USD),
            link |-> strip(or_empty(src.link)),
            image_link |-> strip(or_empty(src.image_url)),
            brand |-> IF strip(or_empty(src.store)) # <<>> THEN strip(or_empty(src.store))
                      ELSE S_Generic]>>

\* build_row with the title handed to stable_unique_id in the place of remark
build_row_title_in_id(src) ==
    IF normalize_market(src.market) = <<>>
       \/ normalize_asin(src.asin) = <<>> \/ strip(or_empty(src.title)) = <<>>
       \/ strip(or_empty(src.link)) = <<>> \/ strip(or_empty(src.image_url)) = <<>>
    THEN <<>>
    ELSE <<[id |-> stable_unique_id(
                normalize_market(src.market) \o <<"_">> \o normalize_asin(src.asin),
                src.store, src.keyword, src.title, src.link, src.image_url,
                src.Commission, src.status),
            item_group_id |-> normalize_market(src.market) \o <<"_">> \o normalize_asin(src.asin),
            title |-> <<"(">> \o normalize_market(src.market) \o <<")">>
                      \o dict_get(FLAG_BY_MARKET, normalize_market(src.market), <<>>)
                      \o strip(or_empty(src.title)),
            description |-> desc_of(strip(or_empty(src.keyword)), strip(or_empty(src.store)),
                                    strip(or_empty(src.remark))),
            availability |-> S_in_stock,
            condition |-> S_new,
            price |-> format_2f(IF parse_price(src.price) = <<>> THEN [num |-> 0, scale |-> 0]
                                ELSE parse_price(src.price)[1]) \o <<" ">>
                      \o dict_get(CURRENCY_BY_MARKET, normalize_market(src.market), USD),
            link |-> strip(or_empty(src.link)),
            image_link |-> strip(or_empty(src.image_url)),
            brand |-> IF strip(or_empty(src.store)) # <<>> THEN strip(or_empty(src.store))
                      ELSE S_Generic]>>

\* one turn of the loop of build_rows: <<>> when the row is skipped, else the
\* feed row appended to out
build_row(src) ==
    LET market == normalize_market(src.market)
        asin == normalize_asin(src.asin)
        title == strip(or_empty(src.title))
        keyword == strip(or_empty(src.keyword))
        store == strip(or_empty(src.store))
        remark == strip(or_empty(src.remark))
        link == strip(or_empty(src.link))
        image_url == strip(or_empty(src.image_url))
        commission == strip(or_empty(src.Commission))
        status == strip(or_empty(src.status))
    IN  IF market = <<>> \/ asin = <<>> \/ title = <<>> \/ link = <<>> \/ image_url = <<>>
        THEN <<>>
        ELSE LET currency == dict_get(CURRENCY_BY_MARKET, market, USD)
                 parsed == parse_price(src.price)
                 price == IF parsed = <<>> THEN [num |-> 0, scale |-> 0] ELSE parsed[1]
                 base_id == market \o <<"_">> \o asin
                 unique_id == stable_unique_id(base_id, store, keyword, remark, link,
                                               image_url, commission, status)
                 flag == dict_get(FLAG_BY_MARKET, market, <<>>)
                 title2 == <<"(">> \o market \o <<")">> \o flag \o title
             IN  <<[id |-> unique_id,
                    item_group_id |-> base_id,
                    title |-> title2,
                    description |-> desc_of(keyword, store, remark),
                    availability |-> S_in_stock,
                    condition |-> S_new,
                    price |-> format_2f(price) \o <<" ">> \o currency,
                    link |-> link,
                    image_link |-> image_url,
                    brand |-> IF store # <<>> THEN store ELSE S_Generic]>>

\* the loop of build_rows: the rows appended to out, in source order
RECURSIVE build_out(_)
build_out(srcs) ==
    IF srcs = <<>> THEN <<>>
    ELSE build_row(srcs[1]) \o build_out(Tail(srcs))

\* the key of out.sort
sort_key(r) == <<r.item_group_id, r.title, r.link, r.id>>

sort_rows_descending(list) ==
    LET s == items_of(sort_keyed([i \in 1..Len(list) |-> [key |-> sort_key(list[i]), item |-> list[i]]]))
    IN  [i \in 1..Len(s) |-> s[Len(s) + 1 - i]]

\* out.sort(key=...)
sort_rows(list) ==
    items_of(sort_keyed([i \in 1..Len(list) |-> [key |-> sort_key(list[i]), item |-> list[i]]]))

build_rows(srcs) == sort_rows(build_out(srcs))

\* s.split(sep, 1)[0]
split_first(s, sep) ==
    LET at == {i \in 1..Len(s) : s[i] = sep}
    IN  IF at = {} THEN s ELSE SubSeq(s, 1, Min(at) - 1)

\* for x in items: d.setdefault(key of x, []).append(x); the dict as its
\* <<key, rows>> pairs in insertion order
RECURSIVE group_by_keys(_, _)
group_by_keys(keys, items) ==
    IF items = <<>> THEN <<>>
    ELSE LET n == Len(items)
             d == group_by_keys(SubSeq(keys, 1, n - 1), SubSeq(items, 1, n - 1))
             at == {i \in 1..Len(d) : d[i].key = keys[n]}
         IN  IF at = {} THEN Append(d, [key |-> keys[n], rows |-> <<items[n]>>])
             ELSE [i \in 1..Len(d) |->
                     IF i \in at THEN [key |-> d[i].key, rows |-> Append(d[i].rows, items[n])]
                     ELSE d[i]]

S_docs == <<"d", "o", "c", "s", "/">>
S_csv == <<".", "c", "s", "v">>
S_meta_all == <<"m", "e", "t", "a", "_", "a", "l", "l">>

----------------------------------------------------------------------------
(* The source rows a run may be served *)

BaseRow ==
    [market |-> US, asin |-> <<"X">>, title |-> <<"A">>, keyword |-> <<>>,
     store |-> <<>>, remark |-> <<>>, link |-> <<"l">>, image_url |-> <<"i">>,
     Commission |-> None, status |-> <<>>,
     price |-> <<"$", "1", "9", ".", "9", "9">>]

RowPool ==
    { BaseRow,
      \* another title
      [BaseRow EXCEPT !.title = <<"B">>],
      \* the same row before trimming and upper-casing, one column missing,
      \* at another price
      [BaseRow EXCEPT !.market = <<" ", "u", "s">>, !.asin = <<"x", " ">>,
                      !.keyword = None, !.link = <<"l", " ">>,
                      !.price = <<" ", "2">>],
      \* two rows whose store and keyword hold the same text around a '|'
      [BaseRow EXCEPT !.store = <<"a", "|", "b">>, !.keyword = <<"c">>],
      [BaseRow EXCEPT !.store = <<"a">>, !.keyword = <<"b", "|", "c">>,
                      !.price = <<"n", "/", "a">>],
      \* another market, no price
      [BaseRow EXCEPT !.market = UK, !.asin = <<"Y">>, !.title = <<"Z">>,
                      !.price = None],
      \* a market that is not in the tables and holds the separator
      [BaseRow EXCEPT !.market = <<"U", "S", "_", "X">>, !.asin = <<"Y">>,
                      !.price = <<"1", ",", "0", ".", "1", "2", "5">>],
      \* a blank title
      [BaseRow EXCEPT !.title = <<" ">>] }

\* the lists of length n over S
RECURSIVE ListsOfLen(_, _)
ListsOfLen(S, n) ==
    IF n = 0 THEN {<<>>}
    ELSE {Append(l, x) : l \in ListsOfLen(S, n - 1), x \in S}

ListsUpTo(S, n) == UNION {ListsOfLen(S, k) : k \in 0..n}

\* 0: requests.get raised (no response); else the status of the final response
Statuses == {0, 200, 300, 404, 503}

----------------------------------------------------------------------------
(* build_feed.py: main *)

raise_never(code) == FALSE

\* Response.raise_for_status(): raises for a 4xx or 5xx status
raise_for_status(code) == code >= 400 /\ code < 600

\* requests.get(...) and r.raise_for_status()
Fetch ==
    /\ script = "feed"
    /\ pc = "start"
    /\ pc' = IF http_status = 0 \/ raise_for_status(http_status) THEN "raised" ELSE "fetched"
    /\ UNCHANGED <<script, http_status, has_price_col, src_rows, MARKETS, out, rows,
                   by_market, mapped, all_items, writes, price_in, price_out>>

\* PRICE_COL in fieldnames
header_ok(has_col) == has_col

\* the check of the header for PRICE_COL
CheckHeader ==
    /\ script = "feed"
    /\ pc = "fetched"
    /\ pc' = IF header_ok(has_price_col) THEN "checked" ELSE "raised"
    /\ UNCHANGED <<script, http_status, has_price_col, src_rows, MARKETS, out, rows,
                   by_market, mapped, all_items, writes, price_in, price_out>>

\* src_rows = list(reader); rows = build_rows(src_rows)
BuildRows ==
    /\ script = "feed"
    /\ pc = "checked"
    /\ out' = build_out(src_rows)
    /\ rows' = build_rows(src_rows)
    /\ pc' = "built"
    /\ UNCHANGED <<script, http_status, has_price_col, src_rows, MARKETS,
                   by_market, mapped, all_items, writes, price_in, price_out>>

\* write_csv("docs/meta_all.csv", rows)
WriteMerged ==
    /\ script = "feed"
    /\ pc = "built"
    /\ writes' = Append(writes, [path |-> S_docs \o S_meta_all \o S_csv, rows |-> rows])
    /\ pc' = "merged"
    /\ UNCHANGED <<script, http_status, has_price_col, src_rows, MARKETS, out, rows,
                   by_market, mapped, all_items, price_in, price_out>>

\* the split of rows by market
split_by_market(rs) ==
    group_by_keys([i \in 1..Len(rs) |-> split_first(rs[i].item_group_id, "_")], rs)

\* the per-market split and its write_csv calls
WriteMarkets ==
    /\ script = "feed"
    /\ pc = "merged"
    /\ by_market' = split_by_market(rows)
    /\ writes' = writes \o
                 [i \in 1..Len(by_market') |->
                    [path |-> S_docs \o lower(by_market'[i].key) \o S_csv,
                     rows |-> by_market'[i].rows]]
    /\ pc' = "done"
    /\ UNCHANGED <<script, http_status, has_price_col, src_rows, MARKETS, out, rows,
                   mapped, all_items, price_in, price_out>>

FeedNext == Fetch \/ CheckHeader \/ BuildRows \/ WriteMerged \/ WriteMarkets

\* a response that lets the run through, and one that does not
Served(code, has_col) == code = 200 /\ has_col

InitFeed ==
    /\ script = "feed"
    /\ pc = "start"
    /\ http_status \in Statuses
    /\ has_price_col \in BOOLEAN
    /\ src_rows \in ListsUpTo(RowPool, MaxRows)
    /\ Served(http_status, has_price_col) \/ Len(src_rows) <= MaxErrRows
    /\ http_status = 0 => ~has_price_col /\ src_rows = <<>>
    /\ MARKETS = <<>>
    /\ out = <<>>
    /\ rows = <<>>
    /\ by_market = <<>>
    /\ mapped = <<>>
    /\ all_items = <<>>
    /\ writes = <<>>
    /\ price_in = None
    /\ price_out = <<>>

----------------------------------------------------------------------------
(* build_site.py *)

\* build_site.py parse_price: the amount, 0 when there is none
site_parse_price(v) ==
    IF v = None THEN [num |-> 0, scale |-> 0]
    ELSE LET s == strip(v)
         IN  IF s = <<>> THEN [num |-> 0, scale |-> 0]
             ELSE LET m == re_search_number(remove_char(s, ","))
                  IN  IF m = <<>> THEN [num |-> 0, scale |-> 0] ELSE Decimal(m[1])

\* <<>> when map_row returns None, else the mapped row
map_row(src) ==
    LET market == normalize_market(src.market)
        asin == normalize_asin(src.asin)
        title == strip(or_empty(src.title))
        link == strip(or_empty(src.link))
        image_url == strip(or_empty(src.image_url))
        keyword == strip(or_empty(src.keyword))
        store == strip(or_empty(src.store))
        remark == strip(or_empty(src.remark))
    IN  IF market = <<>> \/ asin = <<>> \/ title = <<>> \/ link = <<>> \/ image_url = <<>>
        THEN <<>>
        ELSE LET price == site_parse_price(src.price)
                 currency == dict_get(CURRENCY_BY_MARKET, market, USD)
                 flag == dict_get(FLAG_BY_MARKET, market, <<>>)
             IN  <<[market |-> market,
                    asin |-> asin,
                    title |-> <<"(">> \o market \o <<")">> \o flag \o title,
                    title_raw |-> title,
                    keyword |-> keyword,
                    store |-> store,
                    remark |-> remark,
                    desc |-> desc_of(keyword, store, remark),
                    price |-> format_2f(price) \o <<" ">> \o currency,
                    link |-> link,
                    image |-> image_url]>>

\* main: the loop that fills mapped
RECURSIVE map_rows(_)
map_rows(srcs) ==
    IF srcs = <<>> THEN <<>>
    ELSE map_row(srcs[1]) \o map_rows(Tail(srcs))

\* items.sort(key=lambda x: (x["asin"], x["title"], x["link"], x["image"]))
sort_items(items) ==
    items_of(sort_keyed([i \in 1..Len(items) |->
        [key |-> <<items[i].asin, items[i].title, items[i].link, items[i].image>>,
         item |-> items[i]]]))

\* the dict as its <<key, rows>> pairs in insertion order, each list sorted
group_by_market(rs) ==
    LET by == group_by_keys([i \in 1..Len(rs) |-> rs[i].market], rs)
    IN  [i \in 1..Len(by) |-> [key |-> by[i].key, rows |-> sort_items(by[i].rows)]]

\* by_market.get(mm, [])
market_items(by, mm) ==
    LET at == {i \in 1..Len(by) : by[i].key = mm}
    IN  IF at = {} THEN <<>> ELSE by[CHOOSE i \in at : TRUE].rows

RECURSIVE extend_all(_, _)
extend_all(by, ms) ==
    IF ms = <<>> THEN <<>>
    ELSE market_items(by, upper(strip(ms[1]))) \o extend_all(by, Tail(ms))

index_items_first_market(by, ms) ==
    IF ms = <<>> THEN <<>> ELSE market_items(by, upper(strip(ms[1])))

\* main: all_items, extended market by market and then sorted
index_items(by, ms) ==
    items_of(sort_keyed(
        LET all == extend_all(by, ms)
        IN  [i \in 1..Len(all) |->
               [key |-> <<all[i].market, all[i].asin, all[i].title, all[i].link>>,
                item |-> all[i]]]))

S_index_html == <<"i", "n", "d", "e", "x", ".", "h", "t", "m", "l">>
S_html == <<".", "h", "t", "m", "l">>

\* read_source_rows(): the fetch and the checks of the header (a CSV without
\* a header has no PRICE_COL either)
ReadSourceRows ==
    /\ script = "site"
    /\ pc = "start"
    /\ pc' = IF http_status = 0 \/ raise_for_status(http_status) \/ ~header_ok(has_price_col)
             THEN "raised" ELSE "read"
    /\ UNCHANGED <<script, http_status, has_price_col, src_rows, MARKETS, out, rows,
                   by_market, mapped, all_items, writes, price_in, price_out>>

\* main: mapped and by_market = group_by_market(mapped)
MapRows ==
    /\ script = "site"
    /\ pc = "read"
    /\ mapped' = map_rows(src_rows)
    /\ by_market' = group_by_market(mapped')
    /\ pc' = "grouped"
    /\ UNCHANGED <<script, http_status, has_price_col, src_rows, MARKETS, out, rows,
                   all_items, writes, price_in, price_out>>

\* main: the index page
WriteIndex ==
    /\ script = "site"
    /\ pc = "grouped"
    /\ all_items' = index_items(by_market, MARKETS)
    /\ writes' = Append(writes, [path |-> S_docs \o S_index_html, rows |-> all_items'])
    /\ pc' = "indexed"
    /\ UNCHANGED <<script, http_status, has_price_col, src_rows, MARKETS, out, rows,
                   by_market, mapped, price_in, price_out>>

\* main: one page for each entry of MARKETS
WritePages ==
    /\ script = "site"
    /\ pc = "indexed"
    /\ writes' = writes \o
                 [i \in 1..Len(MARKETS) |->
                    [path |-> S_docs \o lower(upper(strip(MARKETS[i]))) \o S_html,
                     rows |-> market_items(by_market, upper(strip(MARKETS[i])))]]
    /\ pc' = "done"
    /\ UNCHANGED <<script, http_status, has_price_col, src_rows, MARKETS, out, rows,
                   by_market, mapped, all_items, price_in, price_out>>

SiteNext == ReadSourceRows \/ MapRows \/ WriteIndex \/ WritePages

\* the MARKETS lists a site run is configured with: the default, a shorter
\* list written with blanks and small letters, and one that repeats a market
MarketLists ==
    { <<US, UK, DE, FR, IT, ES, CA, JP>>,
      <<<<" ", "u", "k">>, <<"u", "s", " ">>>>,
      <<US, US>> }

InitSite ==
    /\ script = "site"
    /\ pc = "start"
    /\ http_status \in Statuses
    /\ has_price_col \in BOOLEAN
    /\ src_rows \in ListsUpTo(RowPool, MaxSiteRows)
    /\ Served(http_status, has_price_col) \/ Len(src_rows) <= MaxErrRows
    /\ http_status = 0 => ~has_price_col /\ src_rows = <<>>
    /\ MARKETS \in MarketLists
    /\ out = <<>>
    /\ rows = <<>>
    /\ by_market = <<>>
    /\ mapped = <<>>
    /\ all_items = <<>>
    /\ writes = <<>>
    /\ price_in = None
    /\ price_out = <<>>

----------------------------------------------------------------------------
(* The runs of the two scripts *)

Init == InitFeed \/ InitSite

Next == FeedNext \/ SiteNext

Spec == Init /\ [][Next]_vars

----------------------------------------------------------------------------
(* parse_price on its own *)

PriceChars == {"0", "1", "9", ".", ",", " ", "$"}

ParsePrice ==
    /\ script = "price"
    /\ pc = "start"
    /\ price_out' = parse_price(price_in)
    /\ pc' = "done"
    /\ UNCHANGED <<script, http_status, has_price_col, src_rows, MARKETS, out, rows,
                   by_market, mapped, all_items, writes, price_in>>

InitPrice ==
    /\ script = "price"
    /\ pc = "start"
    /\ price_in \in {None} \cup ListsUpTo(PriceChars, MaxPriceLen)
    /\ price_out = <<>>
    /\ http_status = 200
    /\ has_price_col = TRUE
    /\ src_rows = <<>>
    /\ MARKETS = <<>>
    /\ out = <<>>
    /\ rows = <<>>
    /\ by_market = <<>>
    /\ mapped = <<>>
    /\ all_items = <<>>
    /\ writes = <<>>

PriceNext == ParsePrice

SpecPrice == InitPrice /\ [][PriceNext]_vars

----------------------------------------------------------------------------
(* What the claims speak of *)

Trim(v) == strip(or_empty(v))

\* the rows the scripts keep: the five required columns hold text
Accepted(src) ==
    /\ Trim(src.market) # <<>>
    /\ Trim(src.asin) # <<>>
    /\ Trim(src.title) # <<>>
    /\ Trim(src.link) # <<>>
    /\ Trim(src.image_url) # <<>>

AcceptedRows == SelectSeq(src_rows, Accepted)

MarketOf(src) == upper(Trim(src.market))

GroupOf(src) == <<MarketOf(src), upper(Trim(src.asin))>>

TrackedOf(src) ==
    <<Trim(src.store), Trim(src.keyword), Trim(src.remark), Trim(src.link),
      Trim(src.image_url), Trim(src.Commission), Trim(src.status)>>

Count(x, seq) == Cardinality({i \in 1..Len(seq) : seq[i] = x})

Abs(n) == IF n < 0 THEN -n ELSE n

\* build_rows has returned
Built == script = "feed" /\ pc \in {"built", "merged", "done"}

\* a is before b in the order of strings: a proper prefix of b, or smaller
\* at the first place where they differ
ClaimStrLess(a, b) ==
    \E k \in 1..Len(b) :
        /\ k <= Len(a) + 1
        /\ \A d \in 1..(k - 1) : a[d] = b[d]
        /\ k = Len(a) + 1 \/ Code(a[k]) < Code(b[k])

ClaimKey(r) == <<r.item_group_id, r.title, r.link, r.id>>

ClaimKeyLeq(k1, k2) ==
    \/ k1 = k2
    \/ \E c \in 1..4 : (\A d \in 1..(c - 1) : k1[d] = k2[d]) /\ ClaimStrLess(k1[c], k2[c])

RECURSIVE ClaimDigitsValue(_)
ClaimDigitsValue(ds) ==
    IF ds = <<>> THEN 0
    ELSE DigitVal(ds[1]) * Pow10(Len(ds) - 1) + ClaimDigitsValue(Tail(ds))

ClaimCurrency(m) ==
    CASE m = <<"U", "S">> -> <<"U", "S", "D">>
      [] m = <<"U", "K">> -> <<"G", "B", "P">>
      [] m \in {<<"D", "E">>, <<"F", "R">>, <<"I", "T">>, <<"E", "S">>} -> <<"E", "U", "R">>
      [] m = <<"C", "A">> -> <<"C", "A", "D">>
      [] m = <<"J", "P">> -> <<"J", "P", "Y">>
      [] OTHER -> <<"U", "S", "D">>

----------------------------------------------------------------------------
(* Claims about build_rows *)

\* C1: build_rows emits exactly one feed row for each source row whose
\* market, asin, title, link and image_url hold text after trimming, in
\* source order, and none for any other row: the output count is the input
\* count less the rejected rows, duplicates are each kept, and a rejected
\* row does not stop the rows after it.
C1_OneFeedRowPerAcceptedRow ==
    Built =>
        /\ Len(out) = Len(AcceptedRows)
        /\ Len(rows) = Len(src_rows) - Cardinality({i \in 1..Len(src_rows) : ~Accepted(src_rows[i])})
        /\ \A k \in 1..Len(out) :
              /\ out[k].item_group_id = MarketOf(AcceptedRows[k]) \o <<"_">> \o upper(Trim(AcceptedRows[k].asin))
              /\ out[k].link = Trim(AcceptedRows[k].link)
              /\ out[k].image_link = Trim(AcceptedRows[k].image_url)
        /\ \A k \in 1..Len(out) : Count(out[k], rows) = Count(out[k], out)

\* a rejected row, then the same accepted row twice: both copies are emitted
C1_Witness ==
    /\ Built
    /\ Len(src_rows) = 3
    /\ ~Accepted(src_rows[1])
    /\ Accepted(src_rows[2])
    /\ src_rows[3] = src_rows[2]
    /\ Len(rows) = 2
    /\ rows[1] = rows[2]

\* C2: two accepted rows of the same normalized (market, ASIN) whose trimmed
\* values differ in a tracked field get the same item_group_id and different
\* ids, whatever the fields hold, '|' included.
C2_TrackedFieldsGiveDistinctIds ==
    Built =>
        /\ Len(out) = Len(AcceptedRows)
        /\ \A i, j \in 1..Len(out) :
              (GroupOf(AcceptedRows[i]) = GroupOf(AcceptedRows[j])
               /\ TrackedOf(AcceptedRows[i]) # TrackedOf(AcceptedRows[j]))
              => (out[i].item_group_id = out[j].item_group_id /\ out[i].id # out[j].id)

C5_SortedPermutation ==
    Built =>
        /\ \A i, j \in 1..Len(rows) : i < j => ClaimKeyLeq(ClaimKey(rows[i]), ClaimKey(rows[j]))
        /\ Len(rows) = Len(out)
        /\ \A k \in 1..Len(out) : Count(out[k], rows) = Count(out[k], out)
        /\ src_rows = << [BaseRow EXCEPT !.title = <<"B">>], BaseRow,
                         [BaseRow EXCEPT !.market = UK, !.asin = <<"Y">>, !.title = <<"Z">>,
                                         !.price = None] >>
           => [i \in 1..Len(rows) |-> <<rows[i].item_group_id, rows[i].title>>]
              = << <<<<"U", "K", "_", "Y">>, <<"(", "U", "K", ")", "RI_G", "RI_B", "Z">>>>,
                   <<<<"U", "S", "_", "X">>, <<"(", "U", "S", ")", "RI_U", "RI_S", "A">>>>,
                   <<<<"U", "S", "_", "X">>, <<"(", "U", "S", ")", "RI_U", "RI_S", "B">>>> >>

\* the three rows of the example, which the sort reverses
C5_Witness ==
    /\ Built
    /\ Len(out) = 3
    /\ out[1].title = <<"(", "U", "S", ")", "RI_U", "RI_S", "B">>
    /\ out[3].title = <<"(", "U", "K", ")", "RI_G", "RI_B", "Z">>
    /\ rows = <<out[3], out[2], out[1]>>

\* the orders in which a list can be handed over
PermutationsOf(list) ==
    { [i \in 1..Len(list) |-> list[f[i]]] :
        f \in {g \in [1..Len(list) -> 1..Len(list)] : \A a, b \in 1..Len(list) : g[a] = g[b] => a = b} }

\* C6: the sort key is a total order: feed rows that tie on (item_group_id,
\* title, link, id) are the same in every column, so every order of the same
\* source rows gives the same output sequence.
C6_KeyIsTotalOrder ==
    Built =>
        /\ \A i, j \in 1..Len(rows) : ClaimKey(rows[i]) = ClaimKey(rows[j]) => rows[i] = rows[j]
        /\ \A p \in PermutationsOf(src_rows) : build_rows(p) = rows

\* C8: the price field of an accepted row is the parsed amount with exactly
\* two fractional digits, a space and the currency of the normalized market
\* (USD outside the table); '$19.99' in market US gives '19.99 USD'; without
\* a parsable price the amount is 0.00 and the row is emitted, 'in stock'.
C8_PriceField ==
    Built =>
        /\ Len(out) = Len(AcceptedRows)
        /\ \A k \in 1..Len(out) :
              LET src == AcceptedRows[k]
                  cur == ClaimCurrency(MarketOf(src))
                  p == parse_price(src.price)
                  f == out[k].price
                  n == Len(f) - Len(cur) - 1
              IN  /\ n >= 4
                  /\ SubSeq(f, n + 1, Len(f)) = <<" ">> \o cur
                  /\ f[n - 2] = "."
                  /\ \A i \in (1..n) \ {n - 2} : IsDigit(f[i])
                  /\ n > 4 => f[1] # "0"
                  /\ LET cents == ClaimDigitsValue(SubSeq(f, 1, n - 3) \o SubSeq(f, n - 1, n))
                         num == IF p = <<>> THEN 0 ELSE p[1].num
                         scale == IF p = <<>> THEN 0 ELSE p[1].scale
                     IN  2 * Abs(cents * Pow10(scale) - num * 100) <= Pow10(scale)
                  /\ p = <<>> => f = <<"0", ".", "0", "0", " ">> \o cur
                  /\ out[k].availability = <<"i", "n", " ", "s", "t", "o", "c", "k">>
                  /\ (MarketOf(src) = <<"U", "S">> /\ src.price = <<"$", "1", "9", ".", "9", "9">>)
                     => f = <<"1", "9", ".", "9", "9", " ", "U", "S", "D">>

\* the example row, a row without a price and a row whose price is rounded
C8_Witness ==
    /\ Built
    /\ Len(out) = 3
    /\ src_rows[1].price = <<"$", "1", "9", ".", "9", "9">>
    /\ out[1].price = <<"1", "9", ".", "9", "9", " ", "U", "S", "D">>
    /\ src_rows[2].price = None
    /\ out[2].price = <<"0", ".", "0", "0", " ", "G", "B", "P">>
    /\ src_rows[3].price = <<"1", ",", "0", ".", "1", "2", "5">>
    /\ out[3].price = <<"1", "0", ".", "1", "2", " ", "U", "S", "D">>

----------------------------------------------------------------------------
(* Claims about the files *)

\* the paths written so far, and the rows a path holds after its last write
WrittenPaths == {writes[i].path : i \in 1..Len(writes)}

FileRows(path) == writes[Max({i \in 1..Len(writes) : writes[i].path = path})].rows

FeedMarketPath(m) == <<"d", "o", "c", "s", "/">> \o lower(m) \o <<".", "c", "s", "v">>

MergedPath == <<"d", "o", "c", "s", "/", "m", "e", "t", "a", "_", "a", "l", "l", ".", "c", "s", "v">>

\* C4: after a run of the feed script the per-market files partition the
\* merged feed: one file for each normalized market with an accepted row,
\* holding exactly the merged rows of that market in merged order, no file
\* written over, and nothing else written, whatever the market and ASIN
\* hold, '_' included.
C4_PerMarketPartition ==
    (script = "feed" /\ pc = "done") =>
        LET markets == {MarketOf(AcceptedRows[k]) : k \in 1..Len(AcceptedRows)}
        IN  /\ WrittenPaths = {MergedPath} \cup {FeedMarketPath(m) : m \in markets}
            /\ \A i, j \in 1..Len(writes) : writes[i].path = writes[j].path => i = j
            /\ FileRows(MergedPath) = rows
            /\ \A m \in markets :
                  /\ FeedMarketPath(m) \in WrittenPaths
                  /\ FileRows(FeedMarketPath(m))
                     = build_rows(SelectSeq(src_rows, LAMBDA src : Accepted(src) /\ MarketOf(src) = m))
            /\ \A k \in 1..Len(rows) :
                  Count(rows[k], rows)
                  = Cardinality({<<i, n>> \in (2..Len(writes)) \X (1..Len(rows)) :
                                   n <= Len(writes[i].rows) /\ writes[i].rows[n] = rows[k]})

\* the response makes the run abort, as the claim has it: no response, a
\* status outside 2xx, or a header without the price column
AbortsAsClaimed == http_status = 0 \/ http_status < 200 \/ http_status > 299 \/ ~has_price_col

\* the response makes the run abort: no response, a 4xx or 5xx status, or a
\* header without the price column
Aborts == http_status = 0 \/ (http_status >= 400 /\ http_status <= 599) \/ ~has_price_col

NothingDone ==
    /\ pc \in {"start", "fetched", "raised"}
    /\ writes = <<>>
    /\ out = <<>> /\ rows = <<>> /\ mapped = <<>> /\ by_market = <<>> /\ all_items = <<>>

\* C9, as stated: in both scripts a failed fetch, a status outside 2xx or a
\* header without the price column makes main raise before a source row is
\* normalized and before a file is written; only a run that passed both
\* checks writes a file.
C9_AbortsOnNon2xx ==
    /\ AbortsAsClaimed => NothingDone
    /\ pc \notin {"start", "fetched", "raised"} => ~AbortsAsClaimed

\* C9, amended: in both scripts a failed fetch, a 4xx or 5xx status or a
\* header without the price column makes main raise before a source row is
\* normalized and before a file is written; only a run that passed both
\* checks writes a file.  (A final status outside 2xx that is no 4xx or 5xx
\* is not refused.)
C9_AbortsOnErrorStatus ==
    /\ Aborts => NothingDone
    /\ (pc = "raised") => Aborts
    /\ pc \notin {"start", "fetched", "raised"} => ~Aborts
    /\ (Aborts /\ ~ENABLED Next) => pc = "raised"

\* a site run served a row under a header without the price column has raised
C9_Witness ==
    /\ script = "site"
    /\ pc = "raised"
    /\ http_status = 200
    /\ ~has_price_col
    /\ Len(AcceptedRows) = 1

----------------------------------------------------------------------------
(* Claims about the pages of build_site.py *)

SiteDone == script = "site" /\ pc = "done"

NormMarkets == [i \in 1..Len(MARKETS) |-> upper(strip(MARKETS[i]))]

SitePagePath(m) == <<"d", "o", "c", "s", "/">> \o lower(m) \o <<".", "h", "t", "m", "l">>

IndexPath == <<"d", "o", "c", "s", "/", "i", "n", "d", "e", "x", ".", "h", "t", "m", "l">>

\* the page item shows the source row (two rows that differ in price only
\* show alike)
Shows(item, src) ==
    /\ item.market = MarketOf(src)
    /\ item.asin = upper(Trim(src.asin))
    /\ item.title_raw = Trim(src.title)
    /\ item.link = Trim(src.link)
    /\ item.image = Trim(src.image_url)
    /\ item.keyword = Trim(src.keyword)
    /\ item.store = Trim(src.store)
    /\ item.remark = Trim(src.remark)

SameShown(s, t) ==
    /\ GroupOf(s) = GroupOf(t)
    /\ Trim(s.title) = Trim(t.title)
    /\ <<Trim(s.link), Trim(s.image_url), Trim(s.keyword), Trim(s.store), Trim(s.remark)>>
       = <<Trim(t.link), Trim(t.image_url), Trim(t.keyword), Trim(t.store), Trim(t.remark)>>

\* how often a page shows the source row, and how many accepted rows show alike
Shown(src, page) == Cardinality({i \in 1..Len(page) : Shows(page[i], src)})

Alike(src) == Cardinality({k \in 1..Len(AcceptedRows) : SameShown(AcceptedRows[k], src)})

----------------------------------------------------------------------------
(* Claims about parse_price *)

\* t[i..j] is a run of digits that no digit follows
DigitRun(t, i, j) ==
    /\ i <= j
    /\ \A k \in i..j : IsDigit(t[k])
    /\ j = Len(t) \/ ~IsDigit(t[j + 1])

\* the Decimal d is the number written intpart.fracpart
IsNumber(d, intpart, fracpart) ==
    d.num * Pow10(Len(fracpart))
    = (ClaimDigitsValue(intpart) * Pow10(Len(fracpart)) + ClaimDigitsValue(fracpart)) * Pow10(d.scale)

\* C7: parse_price returns the value of the leading number: with the commas
\* removed, the first run of digits, and the '.' and digits after it when
\* there are any; it returns None exactly when the input is None, blank or
\* without a digit; '0' and '0.00' give zero, which is not None.
C7_ParsePrice ==
    (script = "price" /\ pc = "done") =>
        /\ (price_out = <<>>)
           <=> (price_in = None \/ \A i \in 1..Len(price_in) : ~IsDigit(price_in[i]))
        /\ price_out # <<>> =>
              LET t == SelectSeq(price_in, LAMBDA c : c # ",")
              IN  \E i, j \in 1..Len(t) :
                    /\ \A k \in 1..(i - 1) : ~IsDigit(t[k])
                    /\ DigitRun(t, i, j)
                    /\ IF j + 2 <= Len(t) /\ t[j + 1] = "." /\ IsDigit(t[j + 2])
                       THEN \E e \in (j + 2)..Len(t) :
                              /\ DigitRun(t, j + 2, e)
                              /\ IsNumber(price_out[1], SubSeq(t, i, j), SubSeq(t, j + 2, e))
                       ELSE IsNumber(price_out[1], SubSeq(t, i, j), <<>>)
        /\ price_in \in {<<"0">>, <<"0", ".", "0", "0">>} =>
              (price_out # <<>> /\ price_out[1].num = 0)

\* a number whose digits a comma separates from its fraction
C7_Witness ==
    /\ script = "price"
    /\ pc = "done"
    /\ price_in = <<"1", ",", ".", "9">>
    /\ price_out = <<[num |-> 19, scale |-> 1]>>

=============================================================================
